---- MODULE Spec2Model ----
(***************************************************************************)
(* Model of chainerrl/agents/dqfd.py: the two-pool prioritized replay      *)
(* buffer (PrioritizedDemoReplayBuffer), its per-environment n-step windows *)
(* and the update scheduler (DemoReplayUpdater) that samples from it and    *)
(* feeds DQfD.update.                                                       *)
(*                                                                          *)
(* PrioritizedReplayBuffer, PrioritizedBuffer and PriorityWeightError live  *)
(* in chainerrl/replay_buffer.py and chainerrl/misc/prioritized.py, which   *)
(* are not part of the sources at hand; the PB_* operators, DequeAppend and *)
(* ParentInit model them from their documented contract.                    *)
(*                                                                          *)
(* Five specifications share the state: SpecB runs the buffer alone, Spec  *)
(* the scheduler over the buffer, SpecA the life cycle of a DQfD agent     *)
(* (loading of demonstrations, pretraining, training steps), SpecE the     *)
(* end-to-end scenario of the buffer and SpecX batch_experiences.          *)
(*                                                                          *)
(* Priorities and errors are fixed-point numbers in thousandths.            *)
(* The value estimator is external: the TD errors it returns are inputs.    *)
(* Importance weights (e[0]['weight']) are not modelled.                    *)
(***************************************************************************)
EXTENDS Integers, Sequences, FiniteSets, TLC

VARIABLES
    capacity,           \* constructor argument `capacity`
    N,                  \* constructor argument `num_steps`
    num_steps,          \* self.num_steps
    maxlen,             \* maxlen of the deques in self.last_n_transitions
    memory,             \* self.memory       (agent pool)
    memory_demo,        \* self.memory_demo  (demonstration pool)
    last_n_transitions, \* self.last_n_transitions[env_id]
    updater,            \* DemoReplayUpdater fields and DQfD.batch_accumulator
    pc,                 \* position of the caller: "idle", "updating", "failed"
    remaining,          \* iterations left of update_if_necessary's loop
    t,                  \* number of raw transitions appended so far
    episode,            \* history: the running episode of each environment id
    last,               \* history: the last append / stop_current_episode
    res,                \* history: the last scheduler call, sample and update
    agent,              \* DQfD: its place in its life cycle and its counters
    batch               \* batch_experiences: its arguments and what it returned

vars == <<capacity, N, num_steps, maxlen, memory, memory_demo,
          last_n_transitions, updater, pc, remaining, t, episode, last, res,
          agent, batch>>

(***************************************************************************)
(* Bounds of the model                                                     *)
(***************************************************************************)
MaxCapacity == 2    \* capacity arguments 1..MaxCapacity of the constructor
MaxNumSteps == 2    \* the num_steps argument of the constructor
MaxEnvId == 1       \* environment ids 0..MaxEnvId
MaxT == 3           \* raw transitions appended in one run of the buffer
MaxUpdT == 2        \* raw transitions appended in one run of the scheduler
MaxAgentT == 2      \* training steps (DQfD.t) in one run of the agent
MaxScenarioT == 4   \* environment steps of the end-to-end scenario

\* The scheduler configurations and step counters of the model
BatchSizes == {1, 2}        \* batchsize and replay_start_size
UpdateIntervals == {1, 2}   \* update_interval
NTimesUpdate == {1, 2}      \* n_times_update
Iterations == {1, 2}        \* the step counter update_if_necessary is given
PretrainSteps == {0, 1, 2}  \* n_pretrain_steps
DemoLoads == {1, 2}         \* the demonstration transitions a run can load

EnvIds == 0..MaxEnvId

None == -1          \* Python's None, as a capacity

Min(a, b) == IF a < b THEN a ELSE b
Max(a, b) == IF a > b THEN a ELSE b
Range(s) == {s[i] : i \in DOMAIN s}

(***************************************************************************)
(* PrioritizedBuffer (chainerrl/misc/prioritized.py)                       *)
(***************************************************************************)
InitialMaxPriority == 1000      \* initial_max_priority = 1.0

PB_New(cap) ==
    [capacity |-> cap, data |-> <<>>, priority_sums |-> <<>>,
     max_priority |-> InitialMaxPriority,
     flag_wait_priority |-> FALSE, sampled_indices |-> <<>>]

PB_Len(pb) == Len(pb.data)

RECURSIVE SumSeq(_)
SumSeq(s) == IF s = <<>> THEN 0 ELSE Head(s) + SumSeq(Tail(s))

\* priority_sums.sum(): total priority mass
PB_Sum(pb) == SumSeq(pb.priority_sums)

PB_Popleft(pb) ==
    [pb EXCEPT !.data = Tail(@), !.priority_sums = Tail(@)]

\* append(value): evict the oldest entry when full, then append with the
\* highest priority seen so far
PB_Append(pb, value) ==
    LET p == IF pb.capacity # None /\ PB_Len(pb) = pb.capacity
             THEN PB_Popleft(pb) ELSE pb
    IN [p EXCEPT !.data = Append(@, value),
                 !.priority_sums = Append(@, pb.max_priority)]

RECURSIVE PB_AppendAll(_, _)
PB_AppendAll(pb, values) ==
    IF values = <<>> THEN pb
    ELSE PB_AppendAll(PB_Append(pb, Head(values)), Tail(values))

\* The draws sample(m) can make: m distinct slots of positive priority, in
\* any order (each draw removes the slot's priority until it is written back)
PB_Draws(pb, m) ==
    LET live == {i \in DOMAIN pb.data : pb.priority_sums[i] > 0}
    IN {s \in [1..m -> live] : \A i, j \in 1..m : i # j => s[i] # s[j]}

PB_Sample(pb, idx) ==
    [pb EXCEPT !.priority_sums =
                   [i \in DOMAIN @ |-> IF i \in Range(idx) THEN 0 ELSE @[i]],
               !.sampled_indices = idx,
               !.flag_wait_priority = TRUE]

PB_Sampled(pb, idx) == [i \in DOMAIN idx |-> pb.data[idx[i]]]

RECURSIVE MaxSeq(_)
MaxSeq(s) == IF s = <<>> THEN 0 ELSE Max(Head(s), MaxSeq(Tail(s)))

PB_SetLastPriority(pb, priority) ==
    [pb EXCEPT !.priority_sums =
                   [i \in DOMAIN @ |->
                       IF \E j \in DOMAIN pb.sampled_indices :
                              pb.sampled_indices[j] = i
                       THEN priority[CHOOSE j \in DOMAIN pb.sampled_indices :
                                         pb.sampled_indices[j] = i]
                       ELSE @[i]],
               !.max_priority = Max(@, MaxSeq(priority)),
               !.flag_wait_priority = FALSE,
               !.sampled_indices = <<>>]

(***************************************************************************)
(* PrioritizedReplayBuffer.__init__ (chainerrl/replay_buffer.py): keeps    *)
(* num_steps and bounds every window by a deque of that maxlen             *)
(***************************************************************************)
ParentInit(parent_num_steps) ==
    [num_steps |-> parent_num_steps, maxlen |-> parent_num_steps]

\* collections.deque(maxlen=m).append(x)
DequeAppend(q, x, m) ==
    IF Len(q) = m THEN Append(Tail(q), x) ELSE Append(q, x)

(***************************************************************************)
(* PrioritizedDemoReplayBuffer                                             *)
(***************************************************************************)
ParentNumSteps_Wider(num_steps_arg) == num_steps_arg + 1
\* __init__ passes the literal num_steps=1 to the parent's __init__
ParentNumSteps(num_steps_arg) == 1

NewMemory_NoCapacity(cap) == PB_New(None)
\* self.memory = PrioritizedBuffer(capacity)
NewMemory(cap) == PB_New(cap)

\* self.memory_demo = PrioritizedBuffer(None)
NewMemoryDemo(cap) == PB_New(None)

AppendPool_Swapped(demo) == IF demo THEN "agent" ELSE "demo"
\* append: memory = self.memory_demo if demo else self.memory
AppendPool(demo) == IF demo THEN "demo" ELSE "agent"

\* stop_current_episode: memory = self.memory if demo is False else ...
StopPool(demo) == IF demo = FALSE THEN "agent" ELSE "demo"

\* while last_n_transitions: memory.append(list(...)); del ...[0]
RECURSIVE Flush(_)
Flush(w) == IF w = <<>> THEN <<>> ELSE <<w>> \o Flush(Tail(w))

\* The experiences append emits, w being the window after
\* last_n_transitions.append(experience)
AppendEmits(w, is_state_terminal, ns) ==
    IF is_state_terminal THEN Flush(w)
    ELSE IF Len(w) = ns THEN <<w>> ELSE <<>>

AppendLeaves_Keep(w, is_state_terminal) == w
\* The window append leaves
AppendLeaves(w, is_state_terminal) ==
    IF is_state_terminal THEN <<>> ELSE w

StopEmits_Reemit(w, ns) ==
    LET first == IF 0 < Len(w) /\ Len(w) <= ns THEN <<w>> ELSE <<>>
        rest  == IF 0 < Len(w) /\ Len(w) <= ns THEN Tail(w) ELSE w
    IN first \o Flush(rest)
\* The experiences stop_current_episode emits from window w
StopEmits(w, ns) ==
    LET first == IF 0 < Len(w) /\ Len(w) < ns THEN <<w>> ELSE <<>>
        rest  == IF 0 < Len(w) /\ Len(w) <= ns THEN Tail(w) ELSE w
    IN first \o Flush(rest)

\* __len__
BufferLen == PB_Len(memory) + PB_Len(memory_demo)

(***************************************************************************)
(* History records                                                         *)
(***************************************************************************)
NoEpisode == [trans |-> <<>>, emitted |-> <<>>]

NoLast ==
    [op |-> "init", env_id |-> 0, demo |-> FALSE, is_state_terminal |-> FALSE,
     window |-> <<>>, emitted |-> <<>>, closed |-> FALSE,
     ep_trans |-> <<>>, ep_emitted |-> <<>>]

NoRes ==
    [op |-> "none", iteration |-> 0, gate |-> "none", buffer_len |-> 0,
     before |-> <<>>, called_sample |-> FALSE, n |-> 0, demo_only |-> FALSE,
     nsample_agent |-> 0, nsample_demo |-> 0, agent_len |-> 0, demo_len |-> 0,
     sampled_agent |-> <<>>, sampled_demo |-> <<>>, error |-> "none",
     pairs |-> 0, updated |-> FALSE, divided_by |-> None]

\* No DQfD agent is constructed in the runs of the buffer and the scheduler
NoAgent ==
    [phase |-> "none", mode |-> "none", n_pretrain_steps |-> 0, tpre |-> 0,
     t |-> 0, last_state |-> FALSE, appended |-> 0, demo_len |-> 0,
     updates |-> <<>>]

\* batch_experiences has not been called
NoExpBatch ==
    [state |-> <<>>, action |-> <<>>, reward_nstep |-> <<>>,
     next_state_nstep |-> <<>>, reward_1step |-> <<>>,
     next_state_1step |-> <<>>, is_state_terminal |-> <<>>,
     discount |-> <<>>, next_action |-> None]

\* _compute_y_and_ts has not been called
NoTargets ==
    [computed |-> FALSE, next_q |-> <<>>, t_nstep |-> <<>>, t_1step |-> <<>>]

NoBatch ==
    [experiences |-> <<>>, gamma |-> 0, called |-> FALSE,
     exp_batch |-> NoExpBatch, targets |-> NoTargets]

(***************************************************************************)
(* Construction                                                            *)
(***************************************************************************)
Transition(id, env_id, demo, is_state_terminal) ==
    [id |-> id, env_id |-> env_id, demo |-> demo,
     is_state_terminal |-> is_state_terminal]

\* PrioritizedDemoReplayBuffer(capacity=c, num_steps=n)
InitBuffer(c, n) ==
    LET parent == ParentInit(ParentNumSteps(n))
    IN /\ capacity = c
       /\ N = n
       /\ num_steps = parent.num_steps
       /\ maxlen = parent.maxlen
       /\ memory = NewMemory(c)
       /\ memory_demo = NewMemoryDemo(c)
       /\ last_n_transitions = [e \in EnvIds |-> <<>>]

\* A Python string: its value and which object it is.  The constant 'mean'
\* of the source is one interned object; a string of the same value made at
\* run time (joined, parsed from a file or a command line) is another one.
Str(value, interned) == [value |-> value, interned |-> interned]

\* The default batch_accumulator='mean' of DQfD.__init__
MeanLiteral == Str("mean", TRUE)

\* The batch_accumulator arguments DQfD can be given: 'mean' as the interned
\* constant, 'mean' as a string made at run time, and 'sum'
Accumulators == {MeanLiteral, Str("mean", FALSE), Str("sum", TRUE)}

\* a == b compares the values, a is b the objects
PyEq(a, b) == a.value = b.value
PyIs(a, b) == a = b

\* DemoReplayUpdater(...), as DQfD.__init__ builds it (episodic_update=False)
InitUpdater(b, s, i, k, acc) ==
    /\ b <= s                       \* assert batchsize <= replay_start_size
    /\ updater = [batchsize |-> b, replay_start_size |-> s,
                  update_interval |-> i, n_times_update |-> k,
                  batch_accumulator |-> acc, episodic_update |-> FALSE]

InitHistory ==
    /\ pc = "idle"
    /\ remaining = 0
    /\ t = 0
    /\ episode = [e \in EnvIds |-> NoEpisode]
    /\ last = NoLast
    /\ res = NoRes

InitRest ==
    /\ InitHistory
    /\ agent = NoAgent
    /\ batch = NoBatch

Init ==
    /\ \E c \in 1..MaxCapacity : InitBuffer(c, MaxNumSteps)
    /\ \E b \in BatchSizes, s \in BatchSizes, i \in UpdateIntervals,
          k \in NTimesUpdate, acc \in Accumulators :
          InitUpdater(b, s, i, k, acc)
    /\ InitRest

\* The buffer alone, under one scheduler configuration
InitB ==
    /\ \E c \in 1..MaxCapacity : InitBuffer(c, MaxNumSteps)
    /\ InitUpdater(1, 1, 1, 1, MeanLiteral)
    /\ InitRest

(***************************************************************************)
(* PrioritizedDemoReplayBuffer.append                                      *)
(***************************************************************************)
Tagged(pool, exps) == [i \in DOMAIN exps |-> [pool |-> pool, exp |-> exps[i]]]

\* last_n_transitions = self.last_n_transitions[env_id]
WindowKey_Shared(env_id) == 0
WindowKey(env_id) == env_id

\* The buffer as a value: its two pools and its windows
Buffer == [memory |-> memory, memory_demo |-> memory_demo,
           last_n_transitions |-> last_n_transitions]

\* append(..., is_state_terminal, env_id, demo) of transition x on buffer buf:
\* the buffer it leaves, the window after x was added and what was emitted
BufAppend(buf, x, env_id, demo, is_state_terminal) ==
    LET key  == WindowKey(env_id)
        w    == DequeAppend(buf.last_n_transitions[key], x, maxlen)
        em   == AppendEmits(w, is_state_terminal, num_steps)
        pool == AppendPool(demo)
    IN [memory |-> IF pool = "agent" THEN PB_AppendAll(buf.memory, em)
                   ELSE buf.memory,
        memory_demo |-> IF pool = "demo"
                        THEN PB_AppendAll(buf.memory_demo, em)
                        ELSE buf.memory_demo,
        last_n_transitions |->
            [buf.last_n_transitions EXCEPT
                 ![key] = AppendLeaves(w, is_state_terminal)],
        window |-> w, pool |-> pool, emitted |-> em]

Append_(env_id, demo, is_state_terminal) ==
    LET x    == Transition(t + 1, env_id, demo, is_state_terminal)
        b    == BufAppend(Buffer, x, env_id, demo, is_state_terminal)
        w    == b.window
        em   == b.emitted
        pool == b.pool
        ep   == [trans   |-> Append(episode[env_id].trans, x.id),
                 emitted |-> episode[env_id].emitted \o Tagged(pool, em)]
    IN /\ pc = "idle"
       /\ t' = t + 1
       /\ last_n_transitions' = b.last_n_transitions
       /\ memory' = b.memory
       /\ memory_demo' = b.memory_demo
       /\ episode' = [episode EXCEPT
                          ![env_id] = IF is_state_terminal THEN NoEpisode
                                      ELSE ep]
       /\ last' = [op |-> "append", env_id |-> env_id, demo |-> demo,
                   is_state_terminal |-> is_state_terminal,
                   window |-> w, emitted |-> Tagged(pool, em),
                   closed |-> is_state_terminal,
                   ep_trans |-> ep.trans, ep_emitted |-> ep.emitted]
       /\ res' = NoRes
       /\ UNCHANGED <<capacity, N, num_steps, maxlen, updater, pc,
                      remaining, agent, batch>>

(***************************************************************************)
(* PrioritizedDemoReplayBuffer.stop_current_episode                        *)
(***************************************************************************)
\* stop_current_episode(demo, env_id) on buffer buf
BufStop(buf, env_id, demo) ==
    LET key  == WindowKey(env_id)
        w    == buf.last_n_transitions[key]
        em   == StopEmits(w, num_steps)
        pool == StopPool(demo)
    IN [memory |-> IF pool = "agent" THEN PB_AppendAll(buf.memory, em)
                   ELSE buf.memory,
        memory_demo |-> IF pool = "demo"
                        THEN PB_AppendAll(buf.memory_demo, em)
                        ELSE buf.memory_demo,
        last_n_transitions |-> [buf.last_n_transitions EXCEPT ![key] = <<>>],
        window |-> w, pool |-> pool, emitted |-> em]

StopCurrentEpisode_(env_id, demo) ==
    LET b    == BufStop(Buffer, env_id, demo)
        w    == b.window
        em   == b.emitted
        pool == b.pool
        ep   == [trans   |-> episode[env_id].trans,
                 emitted |-> episode[env_id].emitted \o Tagged(pool, em)]
    IN /\ pc = "idle"
       /\ last_n_transitions' = b.last_n_transitions
       /\ memory' = b.memory
       /\ memory_demo' = b.memory_demo
       /\ episode' = [episode EXCEPT ![env_id] = NoEpisode]
       /\ last' = [op |-> "stop_current_episode", env_id |-> env_id,
                   demo |-> demo, is_state_terminal |-> FALSE,
                   window |-> w, emitted |-> Tagged(pool, em),
                   closed |-> TRUE,
                   ep_trans |-> ep.trans, ep_emitted |-> ep.emitted]
       /\ res' = NoRes
       /\ UNCHANGED <<capacity, N, num_steps, maxlen, updater, pc,
                      remaining, t, agent, batch>>

AppendCall ==
    /\ t < MaxT
    /\ \E env_id \in EnvIds, demo \in BOOLEAN, is_state_terminal \in BOOLEAN :
           Append_(env_id, demo, is_state_terminal)

StopCurrentEpisodeCall ==
    \E env_id \in EnvIds, demo \in BOOLEAN : StopCurrentEpisode_(env_id, demo)

NextB == AppendCall \/ StopCurrentEpisodeCall

SpecB == InitB /\ [][NextB]_vars

(***************************************************************************)
(* The end-to-end scenario: a buffer of agent capacity 100 and num_steps   *)
(* 3 whose demo pool was preloaded with 10 experiences, each a one-step    *)
(* demonstration episode, and then the agent's environment steps           *)
(***************************************************************************)
Preloaded == [i \in 1..10 |-> <<Transition(i, 0, TRUE, TRUE)>>]

InitE ==
    LET parent == ParentInit(ParentNumSteps(3))
    IN /\ capacity = 100
       /\ N = 3
       /\ num_steps = parent.num_steps
       /\ maxlen = parent.maxlen
       /\ memory = NewMemory(100)
       /\ memory_demo = PB_AppendAll(NewMemoryDemo(100), Preloaded)
       /\ last_n_transitions = [e \in EnvIds |-> <<>>]
       /\ InitUpdater(1, 1, 1, 1, MeanLiteral)
       /\ pc = "idle"
       /\ remaining = 0
       /\ t = Len(Preloaded)
       /\ episode = [e \in EnvIds |-> NoEpisode]
       /\ last = NoLast
       /\ res = NoRes
       /\ agent = NoAgent
       /\ batch = NoBatch

\* One environment step: append(..., is_state_terminal, env_id)
EnvironmentStep ==
    /\ t < Len(Preloaded) + MaxScenarioT
    /\ \E env_id \in EnvIds, is_state_terminal \in BOOLEAN :
           Append_(env_id, FALSE, is_state_terminal)

NextE == EnvironmentStep

SpecE == InitE /\ [][NextE]_vars

(***************************************************************************)
(* PriorityWeightError.priority_from_errors, with the parameters           *)
(* PrioritizedDemoReplayBuffer.__init__ passes on: alpha=0.6, eps=0.01,    *)
(* error_min=0, error_max=1                                                *)
(***************************************************************************)
Eps == 10
ErrorMin == 0
ErrorMax == 1000

ClipError(d) == Min(ErrorMax, Max(ErrorMin, d))

\* 1000 * (x / 1000) ** 0.6, rounded, for the arguments the model produces
PowAlpha(x) ==
    CASE x = 10   -> 63
      [] x = 11   -> 67
      [] x = 510  -> 668
      [] x = 511  -> 668
      [] x = 1010 -> 1006

PriorityFromErrors(errors) ==
    [i \in DOMAIN errors |-> PowAlpha(ClipError(errors[i]) + Eps)]

(***************************************************************************)
(* PrioritizedDemoReplayBuffer.sample_from_memory / sample / update_errors *)
(***************************************************************************)
SampleFromMemory_Truncate(pb, m, idx) ==
    IF m = 0 \/ PB_Len(pb) < m
    THEN [error |-> "none", pb |-> pb, sampled |-> <<>>]
    ELSE IF pb.flag_wait_priority
    THEN [error |-> "AssertionError", pb |-> pb, sampled |-> <<>>]
    ELSE [error |-> "none", pb |-> PB_Sample(pb, idx),
          sampled |-> PB_Sampled(pb, idx)]
\* sample_from_memory(memory_str, m), idx being the draw memory.sample makes
SampleFromMemory(pb, m, idx) ==
    IF PB_Len(pb) < m                        \* assert len(memory) >= m
    THEN [error |-> "AssertionError", pb |-> pb, sampled |-> <<>>]
    ELSE IF m = 0
    THEN [error |-> "none", pb |-> pb, sampled |-> <<>>]
    ELSE IF pb.flag_wait_priority            \* PrioritizedBuffer.sample
    THEN [error |-> "AssertionError", pb |-> pb, sampled |-> <<>>]
    ELSE [error |-> "none", pb |-> PB_Sample(pb, idx),
          sampled |-> PB_Sampled(pb, idx)]

\* The draws memory.sample(m) can make when sample_from_memory reaches it
Draws(pb, m) ==
    IF PB_Len(pb) < m \/ m = 0 \/ pb.flag_wait_priority THEN {<<>>}
    ELSE PB_Draws(pb, m)

\* np.random.binomial(n, psum_agent / (psum_agent + psum_demo))
Binomial(n, psum_agent, psum_demo) ==
    IF psum_agent = 0 THEN {0}
    ELSE IF psum_demo = 0 THEN {n}
    ELSE 0..n

\* nsample_agent = min(nsample_agent, len(self.memory))
NSampleAgent(b, agent_len) == Min(b, agent_len)

NSampleDemo_All(n, nsample_agent) == n
\* nsample_demo = n - nsample_agent
NSampleDemo(n, nsample_agent) == n - nsample_agent

\* sample(n, demo_only), b being the binomial draw and ia, id the draws of
\* the two pools
Sample(mem, memd, n, demo_only, b, ia, id) ==
    IF demo_only
    THEN LET d == SampleFromMemory(memd, n, id)
         IN [error |-> d.error, memory |-> mem, memory_demo |-> d.pb,
             sampled_agent |-> <<>>, sampled_demo |-> d.sampled]
    ELSE IF PB_Sum(mem) + PB_Sum(memd) = 0
    THEN [error |-> "ZeroDivisionError", memory |-> mem,
          memory_demo |-> memd, sampled_agent |-> <<>>,
          sampled_demo |-> <<>>]
    ELSE LET na == NSampleAgent(b, PB_Len(mem))
             nd == NSampleDemo(n, na)
             a  == SampleFromMemory(mem, na, ia)
             d  == SampleFromMemory(memd, nd, id)
         IN IF a.error # "none"
            THEN [error |-> a.error, memory |-> mem, memory_demo |-> memd,
                  sampled_agent |-> <<>>, sampled_demo |-> <<>>]
            ELSE IF d.error # "none"
            THEN [error |-> d.error, memory |-> a.pb, memory_demo |-> memd,
                  sampled_agent |-> <<>>, sampled_demo |-> <<>>]
            ELSE [error |-> "none", memory |-> a.pb, memory_demo |-> d.pb,
                  sampled_agent |-> a.sampled, sampled_demo |-> d.sampled]

UpdateErrors_AgentOnly(mem, memd, errors_agent, errors_demo) ==
    [memory_demo |-> memd,
     memory |-> IF Len(errors_agent) > 0
                THEN PB_SetLastPriority(mem, PriorityFromErrors(errors_agent))
                ELSE mem]
UpdateErrors_DemoOnly(mem, memd, errors_agent, errors_demo) ==
    [memory_demo |-> IF Len(errors_demo) > 0
                     THEN PB_SetLastPriority(memd,
                              PriorityFromErrors(errors_demo))
                     ELSE memd,
     memory |-> mem]
\* update_errors(errors_agent, errors_demo)
UpdateErrors(mem, memd, errors_agent, errors_demo) ==
    [memory_demo |-> IF Len(errors_demo) > 0
                     THEN PB_SetLastPriority(memd,
                              PriorityFromErrors(errors_demo))
                     ELSE memd,
     memory |-> IF Len(errors_agent) > 0
                THEN PB_SetLastPriority(mem, PriorityFromErrors(errors_agent))
                ELSE mem]

(***************************************************************************)
(* DQfD.update                                                             *)
(***************************************************************************)
BonusPriorityAgent == 1
BonusPriorityDemo == 1000

\* |y - t_1step| per sample, as the value estimator may return it
RawErrors == {0, 500}

\* The error vectors of a batch of n; none is computed when sample failed
ErrorsOut(n, sample_error) ==
    IF sample_error = "none" THEN [1..n -> RawErrors] ELSE {<<>>}

\* if self.batch_accumulator is "mean": loss_supervised /= len(...)
SupervisedDivisor(batch_accumulator, experiences_demo) ==
    IF PyIs(batch_accumulator, MeanLiteral) THEN Len(experiences_demo)
    ELSE None

NumExpAgent_None(experiences_agent) == 0
\* num_exp_agent = len(experiences_agent)
NumExpAgent(experiences_agent) == Len(experiences_agent)

\* loss_supervised /= len(experiences_demo) (line 431) is chainer's division
\* of a Variable by a Python int, and chainer is not among the sources: by
\* 0 it raises ZeroDivisionError or it yields a loss that is not finite
DivisionOutcomes(divided_by) ==
    IF divided_by = 0 THEN {"ZeroDivisionError", "none"} ELSE {"none"}

\* update(experiences_agent, experiences_demo), errors_out being the errors
\* _compute_ddqn_losses returns for experiences_agent + experiences_demo and
\* acc self.batch_accumulator
Update(mem, memd, experiences_agent, experiences_demo, errors_out, acc) ==
    LET num_exp_agent == NumExpAgent(experiences_agent)
        err_agent == [i \in 1..num_exp_agent |->
                          errors_out[i] + BonusPriorityAgent]
        err_demo  == [i \in 1..(Len(errors_out) - num_exp_agent) |->
                          errors_out[num_exp_agent + i] + BonusPriorityDemo]
        u == UpdateErrors(mem, memd, err_agent, err_demo)
    IN [memory |-> u.memory, memory_demo |-> u.memory_demo,
        divided_by |-> SupervisedDivisor(acc, experiences_demo)]

(***************************************************************************)
(* batch_experiences.  Rewards are integers and gamma is a number of       *)
(* hundredths; reward_1step, reward_nstep and discount are exact, in units *)
(* of GammaDen ^ -MaxNumSteps.  States are numbered along their episode:   *)
(* the next state of state k is k + 1, and only the last transition of an  *)
(* experience can be terminal.                                             *)
(***************************************************************************)
GammaDen == 100
Gammas == {50, 99}          \* gamma = 0.5, 0.99
Rewards == {1, 2}
FirstStates == {0, 1}
NextActions == {None, 0}    \* next_action of the last transition

RECURSIVE Pow(_, _)
Pow(x, k) == IF k = 0 THEN 1 ELSE x * Pow(x, k - 1)

\* gamma ** k times x, x a whole number, for k <= MaxNumSteps
Discounted(gamma, k, x) ==
    Pow(gamma, k) * Pow(GammaDen, MaxNumSteps - k) * x

RawTransition(state, reward, next_action, is_state_terminal) ==
    [state |-> state, action |-> 0, reward |-> reward,
     next_state |-> state + 1, next_action |-> next_action,
     is_state_terminal |-> is_state_terminal]

\* The experiences of len transitions a pool can hold
ExperiencesOfLen(len) ==
    {[i \in 1..len |->
          RawTransition(s0 + i - 1, r[i],
                        IF i = len THEN na ELSE 0,
                        i = len /\ term)] :
        s0 \in FirstStates, r \in [1..len -> Rewards],
        na \in NextActions, term \in BOOLEAN}

Experiences == UNION {ExperiencesOfLen(len) : len \in 1..MaxNumSteps}

RECURSIVE SumTo(_, _)
\* sum(f[i] for i in range(n))
SumTo(f, n) == IF n = 0 THEN 0 ELSE SumTo(f, n - 1) + f[n - 1]

RewardNStep_Shifted(exp, gamma) ==
    SumTo([i \in 0..(Len(exp) - 1) |->
               Discounted(gamma, i + 1, exp[i + 1].reward)], Len(exp))
\* sum((gamma ** i) * exp[i]['reward'] for i in range(len(exp)))
RewardNStep(exp, gamma) ==
    SumTo([i \in 0..(Len(exp) - 1) |->
               Discounted(gamma, i, exp[i + 1].reward)], Len(exp))

\* exp[0]['reward']
Reward1Step(exp) == Pow(GammaDen, MaxNumSteps) * exp[1].reward

\* any(transition['is_state_terminal'] for transition in exp)
AnyTerminal(exp) == \E i \in DOMAIN exp : exp[i].is_state_terminal

\* gamma ** len(elem)
Discount(exp, gamma) == Discounted(gamma, Len(exp), 1)

BatchExperiences(experiences, gamma) ==
    LET each(f(_)) == [i \in DOMAIN experiences |-> f(experiences[i])]
        state(e) == e[1].state
        action(e) == e[1].action
        reward_nstep(e) == RewardNStep(e, gamma)
        next_state_nstep(e) == e[Len(e)].next_state
        reward_1step(e) == Reward1Step(e)
        next_state_1step(e) == e[1].next_state
        is_state_terminal(e) == AnyTerminal(e)
        discount(e) == Discount(e, gamma)
        next_action(e) == e[Len(e)].next_action
    IN [state |-> each(state), action |-> each(action),
        reward_nstep |-> each(reward_nstep),
        next_state_nstep |-> each(next_state_nstep),
        reward_1step |-> each(reward_1step),
        next_state_1step |-> each(next_state_1step),
        is_state_terminal |-> each(is_state_terminal),
        discount |-> each(discount),
        next_action |->
            IF \A i \in DOMAIN experiences :
                   next_action(experiences[i]) # None
            THEN each(next_action) ELSE None]

\* The arguments of a call: a batch of one or two experiences and gamma
InitX ==
    /\ InitBuffer(MaxCapacity, MaxNumSteps)
    /\ InitUpdater(1, 1, 1, 1, MeanLiteral)
    /\ InitHistory
    /\ agent = NoAgent
    /\ \E n \in BatchSizes, gamma \in Gammas :
       \E experiences \in [1..n -> Experiences] :
           batch = [NoBatch EXCEPT !.experiences = experiences,
                                   !.gamma = gamma]

BatchExperiencesCall ==
    /\ ~batch.called
    /\ batch' = [batch EXCEPT
                     !.called = TRUE,
                     !.exp_batch = BatchExperiences(batch.experiences,
                                                    batch.gamma)]
    /\ UNCHANGED <<capacity, N, num_steps, maxlen, memory, memory_demo,
                   last_n_transitions, updater, pc, remaining, t, episode,
                   last, res, agent>>

(***************************************************************************)
(* DQfD._compute_y_and_ts.  The estimators are external: next_q is the     *)
(* value the target estimator gives, in each next state, to the greedy     *)
(* action of the online estimator.                                         *)
(***************************************************************************)
QValues == {1, 2}

\* The next states the estimators are queried for
NextStates(exp_batch) ==
    Range(exp_batch.next_state_nstep) \cup Range(exp_batch.next_state_1step)

\* exp_batch["reward"] = reward; exp_batch["next_state"] = next_state
Renamed(exp_batch, reward, next_state) ==
    [k \in DOMAIN exp_batch \cup {"reward", "next_state"} |->
        IF k = "reward" THEN reward
        ELSE IF k = "next_state" THEN next_state
        ELSE exp_batch[k]]

\* DoubleDQN._compute_target_values (chainerrl/agents/double_dqn.py):
\* batch_rewards + discount * (1.0 - batch_terminal) * next_q_max, read
\* from the entries reward, next_state, is_state_terminal and discount
ComputeTargetValues(exp_batch, next_q) ==
    [i \in DOMAIN exp_batch["reward"] |->
        exp_batch["reward"][i]
        + exp_batch["discount"][i]
          * (IF exp_batch["is_state_terminal"][i] THEN 0 ELSE 1)
          * next_q[exp_batch["next_state"][i]]]

\* The n-step and the 1-step targets of _compute_y_and_ts
ComputeYAndTs(exp_batch, next_q) ==
    LET for_nstep == Renamed(exp_batch, exp_batch.reward_nstep,
                             exp_batch.next_state_nstep)
        for_1step == Renamed(for_nstep, exp_batch.reward_1step,
                             exp_batch.next_state_1step)
    IN [computed |-> TRUE, next_q |-> next_q,
        t_nstep |-> ComputeTargetValues(for_nstep, next_q),
        t_1step |-> ComputeTargetValues(for_1step, next_q)]

ComputeYAndTsCall ==
    /\ batch.called
    /\ ~batch.targets.computed
    /\ \E next_q \in [NextStates(batch.exp_batch) -> QValues] :
           batch' = [batch EXCEPT
                        !.targets = ComputeYAndTs(batch.exp_batch, next_q)]
    /\ UNCHANGED <<capacity, N, num_steps, maxlen, memory, memory_demo,
                   last_n_transitions, updater, pc, remaining, t, episode,
                   last, res, agent>>

NextX == BatchExperiencesCall \/ ComputeYAndTsCall

SpecX == InitX /\ [][NextX]_vars

(***************************************************************************)
(* DemoReplayUpdater.update_if_necessary                                   *)
(***************************************************************************)
\* The gate that stops the call, or "pass"
Gate(buffer_len, iteration) ==
    IF buffer_len < updater.replay_start_size THEN "length"
    ELSE IF iteration % updater.update_interval # 0 THEN "interval"
    ELSE "pass"

\* for _ in range(self.n_times_update)
LoopCount(n_times_update) == n_times_update

\* update_if_necessary(iteration) up to its loop, on a buffer whose pools
\* are mem and memd
Gates(iteration, mem, memd) ==
    LET buffer_len == PB_Len(mem) + PB_Len(memd)
        g == Gate(buffer_len, iteration)
    IN /\ res' = [NoRes EXCEPT !.op = "update_if_necessary",
                               !.iteration = iteration, !.gate = g,
                               !.buffer_len = buffer_len,
                               !.before = IF g = "pass" THEN <<>>
                                          ELSE <<mem, memd>>]
       /\ pc' = IF g = "pass" THEN "updating" ELSE "idle"
       /\ remaining' = IF g = "pass"
                       THEN LoopCount(updater.n_times_update) ELSE 0

UpdateIfNecessary_(iteration) ==
       /\ pc = "idle"
       /\ Gates(iteration, memory, memory_demo)
       /\ last' = NoLast
       /\ UNCHANGED <<capacity, N, num_steps, maxlen, memory, memory_demo,
                      last_n_transitions, updater, t, episode, agent, batch>>

UpdateIfNecessaryCall ==
    \E iteration \in Iterations : UpdateIfNecessary_(iteration)

\* sample(batchsize, demo_only) and then update_func on what it returned;
\* r0 is the record of the call so far, left the loop turns left before it
\* (\E x \in {e} names the value e)
SampleAndUpdate(demo_only, r0, left) ==
    LET n  == updater.batchsize
        na(b) == IF demo_only THEN 0 ELSE NSampleAgent(b, PB_Len(memory))
        nd(b) == IF demo_only THEN n ELSE NSampleDemo(n, na(b))
    IN \E b \in IF demo_only THEN {0}
                ELSE Binomial(n, PB_Sum(memory), PB_Sum(memory_demo)) :
       \E ia \in Draws(memory, na(b)) :
       \E id \in Draws(memory_demo, nd(b)) :
       \E sm \in {Sample(memory, memory_demo, n, demo_only, b, ia, id)} :
       \E r \in {[r0 EXCEPT !.called_sample = TRUE, !.n = n,
                            !.demo_only = demo_only,
                            !.nsample_agent = na(b),
                            !.nsample_demo = nd(b),
                            !.agent_len = PB_Len(memory),
                            !.demo_len = PB_Len(memory_demo),
                            !.sampled_agent = sm.sampled_agent,
                            !.sampled_demo = sm.sampled_demo,
                            !.error = sm.error]} :
           IF sm.error # "none"
           THEN /\ memory' = sm.memory
                /\ memory_demo' = sm.memory_demo
                /\ res' = [r EXCEPT !.updated = FALSE]
                /\ pc' = "failed"
                /\ remaining' = left
           ELSE \E errors_out \in ErrorsOut(n, sm.error) :
                \E u \in {Update(sm.memory, sm.memory_demo,
                                 sm.sampled_agent, sm.sampled_demo,
                                 errors_out, updater.batch_accumulator)} :
                \E raised \in DivisionOutcomes(u.divided_by) :
                   /\ memory' = u.memory
                   /\ memory_demo' = u.memory_demo
                   /\ IF raised = "none"
                      THEN /\ res' = [r EXCEPT !.updated = TRUE,
                                               !.pairs = @ + 1,
                                               !.divided_by = u.divided_by]
                           /\ remaining' = left - 1
                           /\ pc' = IF left - 1 = 0 THEN "idle"
                                    ELSE "updating"
                      \* update raised after update_errors (line 413) and
                      \* before optimizer.update(); the exception leaves
                      \* the caller's loop
                      ELSE /\ res' = [r EXCEPT !.updated = FALSE,
                                               !.error = raised]
                           /\ remaining' = left
                           /\ pc' = "failed"

\* One turn of update_if_necessary's loop
UpdateStep ==
    /\ pc = "updating"
    /\ remaining > 0
    /\ SampleAndUpdate(FALSE, res, remaining)
    /\ UNCHANGED <<capacity, N, num_steps, maxlen, last_n_transitions,
                   updater, t, episode, last, agent, batch>>

(***************************************************************************)
(* DemoReplayUpdater.update_from_demonstrations                            *)
(***************************************************************************)
UpdateFromDemonstrations ==
    /\ pc = "idle"
    /\ SampleAndUpdate(TRUE,
           [NoRes EXCEPT !.op = "update_from_demonstrations",
                         !.buffer_len = BufferLen], 1)
    /\ last' = NoLast
    /\ UNCHANGED <<capacity, N, num_steps, maxlen, last_n_transitions,
                   updater, t, episode, agent, batch>>

\* The scheduler runs over the buffer as DQfD.act_and_train and the loading
\* of demonstrations fill it: non-terminal appends on environment id 0
AppendStep ==
    /\ t < MaxUpdT
    /\ \E demo \in BOOLEAN : Append_(0, demo, FALSE)

StopStep == \E demo \in BOOLEAN : StopCurrentEpisode_(0, demo)

Next ==
    \/ AppendStep
    \/ StopStep
    \/ UpdateIfNecessaryCall
    \/ UpdateStep
    \/ UpdateFromDemonstrations

Spec == Init /\ [][Next]_vars

(***************************************************************************)
(* The life cycle of a DQfD agent: demonstrations are loaded into the      *)
(* buffer, DQfD.__init__ builds the updater and runs pretrain, and then    *)
(* the training loop calls act_and_train or batch_observe_and_train        *)
(***************************************************************************)
InitA ==
    /\ \E c \in 1..MaxCapacity : InitBuffer(c, MaxNumSteps)
    /\ \E n \in PretrainSteps, mode \in {"single", "batch"} :
           agent = [NoAgent EXCEPT !.phase = "load", !.mode = mode,
                                   !.n_pretrain_steps = n]
    \* n_times_update is varied under act_and_train and is DQfD's default, 1,
    \* under batch_observe_and_train
    /\ \E b \in BatchSizes, s \in BatchSizes, i \in UpdateIntervals,
          k \in NTimesUpdate :
           /\ agent.mode = "batch" => k = 1
           /\ InitUpdater(b, s, i, k, MeanLiteral)
    /\ InitHistory
    /\ batch = NoBatch

\* replay_buffer.append(..., demo=True) by the script that builds the agent:
\* the demonstrations are loaded as one running episode
LoadDemonstration ==
    /\ agent.phase = "load"
    /\ t + 1 \in DemoLoads
    /\ Append_(0, TRUE, FALSE)

PretrainCount_OneLess(n_pretrain_steps) == n_pretrain_steps - 1
\* pretrain: for tpre in range(self.n_pretrain_steps)
PretrainCount(n_pretrain_steps) == n_pretrain_steps

\* DQfD.__init__ up to its call of pretrain
Construct ==
    /\ agent.phase = "load"
    /\ pc = "idle"
    /\ agent' = [agent EXCEPT
                     !.phase = IF PretrainCount(agent.n_pretrain_steps) <= 0
                               THEN "train" ELSE "pretrain",
                     !.demo_len = PB_Len(memory_demo)]
    /\ res' = NoRes
    /\ last' = NoLast
    /\ UNCHANGED <<capacity, N, num_steps, maxlen, memory, memory_demo,
                   last_n_transitions, updater, pc, remaining, t, episode,
                   batch>>

\* One turn of pretrain's loop: update_from_demonstrations
PretrainStep ==
    /\ agent.phase = "pretrain"
    /\ pc = "idle"
    /\ agent.tpre < PretrainCount(agent.n_pretrain_steps)
    /\ SampleAndUpdate(TRUE,
           [NoRes EXCEPT !.op = "update_from_demonstrations",
                         !.buffer_len = BufferLen], 1)
    /\ agent' = IF res'.updated
                THEN [agent EXCEPT
                         !.tpre = @ + 1,
                         !.phase = IF agent.tpre + 1 =
                                          PretrainCount(agent.n_pretrain_steps)
                                   THEN "train" ELSE "pretrain",
                         !.updates = Append(@,
                             [agent |-> res'.sampled_agent,
                              demo |-> res'.sampled_demo,
                              appended |-> agent.appended])]
                ELSE agent
    /\ UNCHANGED <<capacity, N, num_steps, maxlen, last_n_transitions,
                   updater, t, episode, last, batch>>

\* act_and_train: self.t += 1, the append of the last transition when there
\* is one, and update_if_necessary(self.t) up to its loop
ActAndTrain ==
    /\ agent.phase = "train" /\ agent.mode = "single"
    /\ pc = "idle"
    /\ agent.t < MaxAgentT
    /\ LET x == Transition(t + 1, 0, FALSE, FALSE)
           b == IF agent.last_state
                THEN BufAppend(Buffer, x, 0, FALSE, FALSE)
                ELSE Buffer
       IN /\ memory' = b.memory
          /\ memory_demo' = b.memory_demo
          /\ last_n_transitions' = b.last_n_transitions
          /\ t' = IF agent.last_state THEN t + 1 ELSE t
          /\ agent' = [agent EXCEPT
                           !.t = @ + 1, !.last_state = TRUE,
                           !.appended = IF agent.last_state THEN @ + 1 ELSE @]
          /\ Gates(agent.t + 1, b.memory, b.memory_demo)
    /\ UNCHANGED <<capacity, N, num_steps, maxlen, updater, episode, last,
                   batch>>

\* for i in range(len(batch_obs)): the environments take turns
LoopIndex(agent_t) == agent_t % (MaxEnvId + 1)

\* One turn of batch_observe_and_train's loop, for environment i: has_obs
\* tells whether batch_last_obs[i] is not None, which it is after
\* batch_act_and_train (DQN, chainerrl/agents/dqn.py) has run
BatchObserveAndTrain_(i, done, reset, has_obs) ==
    /\ agent.phase = "train" /\ agent.mode = "batch"
    /\ pc = "idle"
    /\ agent.t < MaxAgentT
    /\ LET x  == Transition(t + 1, i, FALSE, done)
           b1 == IF has_obs THEN BufAppend(Buffer, x, i, FALSE, done)
                 ELSE Buffer
           b2 == IF has_obs /\ (reset \/ done) THEN BufStop(b1, i, FALSE)
                 ELSE b1
       IN /\ memory' = b2.memory
          /\ memory_demo' = b2.memory_demo
          /\ last_n_transitions' = b2.last_n_transitions
          /\ t' = IF has_obs THEN t + 1 ELSE t
          /\ agent' = [agent EXCEPT
                           !.t = @ + 1,
                           !.appended = IF has_obs THEN @ + 1 ELSE @]
          /\ Gates(agent.t + 1, b2.memory, b2.memory_demo)
    /\ UNCHANGED <<capacity, N, num_steps, maxlen, updater, episode, last,
                   batch>>

BatchObserveAndTrain ==
    \E done \in BOOLEAN, reset \in BOOLEAN :
        BatchObserveAndTrain_(LoopIndex(agent.t), done, reset, TRUE)

NextA ==
    \/ LoadDemonstration
    \/ Construct
    \/ PretrainStep
    \/ ActAndTrain
    \/ BatchObserveAndTrain
    \/ UpdateStep

SpecA == InitA /\ [][NextA]_vars

(***************************************************************************)
(* Helpers of the properties                                               *)
(***************************************************************************)
Lens(tagged) == [i \in DOMAIN tagged |-> Len(tagged[i].exp)]

\* sample returned what was asked of it
SampleReturned(r) ==
    /\ r.called_sample
    /\ r.error = "none" \/ r.sampled_agent \o r.sampled_demo # <<>>

\* update got as far as its update_errors call: it completed, or its
\* division raised afterwards (sample has returned a batch by then)
WroteErrors(r) ==
    \/ r.updated
    \/ r.error = "ZeroDivisionError" /\ r.sampled_agent # <<>>

\* <<k, k-1, ..., 1>>
Countdown(k) == [i \in 1..k |-> k - i + 1]

FirstIds(tagged) == [i \in DOMAIN tagged |-> tagged[i].exp[1].id]

Injective(s) == \A i, j \in DOMAIN s : i # j => s[i] # s[j]

\* The experiences the step just taken emitted into a pool
NewIn(pool) ==
    IF last' = last THEN <<>>
    ELSE SelectSeq(last'.emitted, LAMBDA e : e.pool = pool)

Exps(tagged) == [i \in DOMAIN tagged |-> tagged[i].exp]

\* The newest c entries of s
Newest(s, c) == IF Len(s) > c THEN SubSeq(s, Len(s) - c + 1, Len(s)) ELSE s

(***************************************************************************)
(* C1: after any sequence of append and stop_current_episode calls the     *)
(* agent pool holds at most `capacity` entries, a full pool evicting its   *)
(* oldest entries first; the demo pool never loses an entry; and           *)
(* len(buffer) is the sum of the two pools' sizes.                         *)
(***************************************************************************)
C1_PoolSizes ==
    /\ [](/\ PB_Len(memory) <= capacity
          /\ BufferLen = Len(memory.data) + Len(memory_demo.data))
    /\ [][/\ memory'.data =
                 Newest(memory.data \o Exps(NewIn("agent")), capacity)
          /\ memory_demo'.data = memory_demo.data \o Exps(NewIn("demo"))
          /\ PB_Len(memory_demo') >= PB_Len(memory_demo)]_vars

\* a full agent pool has evicted its oldest entry, and the demo pool is used
C1_Witness ==
    /\ PB_Len(memory) = capacity
    /\ memory.data[1][1].id > 1
    /\ \E i \in DOMAIN memory_demo.data : memory_demo.data[i][1].id = 1

(***************************************************************************)
(* C2: a terminal append whose window then holds k transitions emits       *)
(* exactly k experiences, the suffixes of the window of lengths k..1, into *)
(* the pool the demo flag selects, and empties the window; so an episode   *)
(* of L <= N transitions emits nothing before its terminal step and        *)
(* exactly L experiences by its end.  N is the num_steps the buffer was    *)
(* constructed with.                                                       *)
(***************************************************************************)
C2_TerminalFlush ==
    /\ (last.op = "append" /\ last.is_state_terminal) =>
           LET k == Len(last.window)
           IN /\ Len(last.emitted) = k
              /\ \A i \in 1..k :
                     /\ last.emitted[i].exp = SubSeq(last.window, i, k)
                     /\ last.emitted[i].pool =
                            (IF last.demo THEN "demo" ELSE "agent")
              /\ last_n_transitions[last.env_id] = <<>>
    /\ \A e \in EnvIds :
           Len(episode[e].trans) < N => episode[e].emitted = <<>>
    /\ (last.op = "append" /\ last.closed /\ Len(last.ep_trans) <= N) =>
           Lens(last.ep_emitted) = Countdown(Len(last.ep_trans))

(***************************************************************************)
(* C3: an episode of L > N transitions that ends with a terminal           *)
(* transition emits L-N+1 experiences of length N and then N-1             *)
(* experiences of lengths N-1, ..., 1.                                     *)
(***************************************************************************)
C3_LongEpisode ==
    (last.op = "append" /\ last.closed /\ Len(last.ep_trans) > N) =>
        LET L == Len(last.ep_trans)
        IN Lens(last.ep_emitted) =
               [i \in 1..L |-> IF i <= L - N + 1 THEN N ELSE L - i + 1]

(***************************************************************************)
(* C4: once an episode is closed, by a terminal append or by               *)
(* stop_current_episode, every transition appended during it is the first  *)
(* element of exactly one emitted experience; and never do two emitted     *)
(* experiences start with the same transition.                             *)
(***************************************************************************)
C4_NoDropNoDouble ==
    /\ last.closed =>
           \A i \in DOMAIN last.ep_trans :
               Cardinality({j \in DOMAIN last.ep_emitted :
                   last.ep_emitted[j].exp[1].id = last.ep_trans[i]}) = 1
    /\ Injective(FirstIds(last.ep_emitted))
    /\ \A e \in EnvIds : Injective(FirstIds(episode[e].emitted))
    /\ Injective([i \in DOMAIN memory.data |-> memory.data[i][1].id]
                 \o [i \in DOMAIN memory_demo.data |->
                         memory_demo.data[i][1].id])

\* an episode of two transitions abandoned with a transition in its window
C4_Witness ==
    /\ last.op = "stop_current_episode"
    /\ Len(last.window) > 0
    /\ Len(last.ep_trans) >= 2

(***************************************************************************)
(* C5: stop_current_episode on a window of k transitions emits, for        *)
(* 0 < k < N, the window and then its suffixes (lengths k, ..., 1); for    *)
(* k = N the suffixes of lengths N-1, ..., 1 only; for k = 0 nothing; and  *)
(* leaves the window empty.  N is the num_steps the buffer was constructed *)
(* with.                                                                   *)
(***************************************************************************)
C5_StopFlush ==
    last.op = "stop_current_episode" =>
        LET k == Len(last.window)
        IN /\ (0 < k /\ k < N) =>
                  /\ Lens(last.emitted) = Countdown(k)
                  /\ last.emitted[1].exp = last.window
           /\ (k = N) => Lens(last.emitted) = Countdown(N - 1)
           /\ (k = 0) => last.emitted = <<>>
           /\ last_n_transitions[last.env_id] = <<>>

(***************************************************************************)
(* C6: sample(n) with demo_only=False returns two lists whose lengths sum  *)
(* to n, the agent list no longer than the agent pool, whatever the        *)
(* binomial draw.                                                          *)
(***************************************************************************)
C6_SampleSplit ==
    (SampleReturned(res) /\ ~res.demo_only) =>
        /\ Len(res.sampled_agent) + Len(res.sampled_demo) = res.n
        /\ Len(res.sampled_agent) <= res.agent_len

\* a sample that drew from both pools
C6_Witness ==
    /\ res.called_sample /\ ~res.demo_only /\ res.error = "none"
    /\ res.n = 2
    /\ res.sampled_agent # <<>>
    /\ res.sampled_demo # <<>>

(***************************************************************************)
(* C7: sample(n, demo_only=True) returns n experiences of the demo pool    *)
(* and none of the agent pool when n <= |demo pool| and fails with an      *)
(* error, returning nothing, when n > |demo pool|; sample(n) fails         *)
(* whenever the number it must draw from a pool exceeds that pool's size.  *)
(***************************************************************************)
C7_Underflow ==
    /\ (res.called_sample /\ res.demo_only) =>
           IF res.n <= res.demo_len
           THEN /\ res.error = "none"
                /\ Len(res.sampled_demo) = res.n
                /\ res.sampled_agent = <<>>
                /\ \A i \in DOMAIN res.sampled_demo :
                       /\ res.sampled_demo[i] \in Range(memory_demo.data)
                       /\ res.sampled_demo[i] \notin Range(memory.data)
           ELSE /\ res.error = "AssertionError"
                /\ res.sampled_demo = <<>>
                /\ ~res.updated
    /\ (/\ res.called_sample /\ ~res.demo_only
        /\ \/ res.nsample_agent > res.agent_len
           \/ res.nsample_demo > res.demo_len) =>
           /\ res.error = "AssertionError"
           /\ res.sampled_agent = <<>> /\ res.sampled_demo = <<>>

\* a demo-only sample of more than the demo pool holds
C7_Witness ==
    /\ res.called_sample /\ res.demo_only
    /\ res.demo_len >= 1
    /\ res.n > res.demo_len
    /\ res.error = "AssertionError"

(***************************************************************************)
(* C8: sample(n) with demo_only=False, n >= 1 and a non-empty demo pool    *)
(* returns a non-empty demo list.                                          *)
(***************************************************************************)
C8_DemoNonEmpty ==
    (/\ SampleReturned(res) /\ ~res.demo_only
     /\ res.n >= 1 /\ res.demo_len > 0) =>
        res.sampled_demo # <<>>

(***************************************************************************)
(* C9: update called with an empty demo list does not divide by zero in    *)
(* the supervised loss when batch_accumulator is 'mean', whichever string  *)
(* object of that value it is: it neither raises ZeroDivisionError nor     *)
(* completes with a loss divided by 0.                                     *)
(***************************************************************************)
C9_NoDivisionByZero ==
    (/\ WroteErrors(res) /\ res.sampled_demo = <<>>
     /\ PyEq(updater.batch_accumulator, MeanLiteral)) =>
        /\ res.error # "ZeroDivisionError"
        /\ res.divided_by # 0

(***************************************************************************)
(* C10: update_if_necessary(iteration) makes exactly n_times_update        *)
(* (sample, update) pairs when len(buffer) >= replay_start_size and        *)
(* iteration is divisible by update_interval; when a gate fails it samples *)
(* nothing, updates nothing, raises nothing and leaves both pools as they  *)
(* were; the length gate comes before the interval gate.                   *)
(***************************************************************************)
C10_Schedule ==
    res.op = "update_if_necessary" =>
        /\ (res.gate = "pass") <=>
               /\ res.buffer_len >= updater.replay_start_size
               /\ res.iteration % updater.update_interval = 0
        /\ (res.gate = "pass" /\ pc # "updating") =>
               /\ res.pairs = updater.n_times_update
               /\ res.error = "none"
        /\ (res.gate # "pass") =>
               /\ ~res.called_sample /\ ~res.updated /\ res.pairs = 0
               /\ res.error = "none" /\ pc = "idle"
               /\ <<memory, memory_demo>> = res.before
        /\ (res.buffer_len < updater.replay_start_size) =>
               res.gate = "length"

(***************************************************************************)
(* C11: pretraining performs exactly n_pretrain_steps updates, each called *)
(* with an empty agent list and a batch of batchsize experiences drawn     *)
(* from the demo pool only, regardless of replay_start_size and            *)
(* update_interval, and all of them happen before the agent appends any    *)
(* environment transition to the buffer.                                   *)
(***************************************************************************)
PretrainUpdatesAsClaimed ==
    /\ agent.phase \in {"load", "pretrain"} => agent.appended = 0
    /\ agent.phase = "train" =>
           Len(agent.updates) = agent.n_pretrain_steps
    /\ \A i \in DOMAIN agent.updates :
           /\ agent.updates[i].agent = <<>>
           /\ Len(agent.updates[i].demo) = updater.batchsize
           /\ Range(agent.updates[i].demo) \subseteq Range(memory_demo.data)
           /\ agent.updates[i].appended = 0

C11_Pretrain ==
    /\ PretrainUpdatesAsClaimed
    /\ agent.phase = "pretrain" => pc # "failed"

(***************************************************************************)
(* C11, amended: the same, provided the demo pool holds at least batchsize *)
(* experiences when the agent is constructed; when it holds fewer and      *)
(* n_pretrain_steps > 0, the first pretraining step fails with an          *)
(* AssertionError and no update is made.                                   *)
(***************************************************************************)
C11_PretrainGivenDemos ==
    /\ PretrainUpdatesAsClaimed
    /\ (agent.phase = "pretrain" /\ agent.demo_len >= updater.batchsize) =>
           pc # "failed"
    /\ (agent.phase = "pretrain" /\ agent.demo_len < updater.batchsize) =>
           /\ agent.updates = <<>>
           /\ pc = "failed" => res.error = "AssertionError"
    /\ (agent.phase = "train" /\ agent.n_pretrain_steps > 0) =>
           agent.demo_len >= updater.batchsize

\* two pretraining updates made while the buffer is below replay_start_size
C11_Witness ==
    /\ agent.phase = "train"
    /\ Len(agent.updates) = 2
    /\ agent.t = 0
    /\ BufferLen < updater.replay_start_size

(***************************************************************************)
(* C12: after the update_errors call that update makes, with               *)
(* bonus_priority_agent added to the agent errors and bonus_priority_demo  *)
(* to the demo errors, every priority stored in either pool is strictly    *)
(* greater than 0, whatever the non-negative raw errors, all-zero errors   *)
(* included.                                                               *)
(***************************************************************************)
C12_PositivePriorities ==
    WroteErrors(res) =>
        /\ \A i \in DOMAIN memory.priority_sums : memory.priority_sums[i] > 0
        /\ \A i \in DOMAIN memory_demo.priority_sums :
               memory_demo.priority_sums[i] > 0

\* an update of a batch from both pools whose agent sample had raw error 0
C12_Witness ==
    /\ res.updated
    /\ res.sampled_agent # <<>> /\ res.sampled_demo # <<>>
    /\ \E i \in DOMAIN memory.data :
           /\ memory.data[i] = res.sampled_agent[1]
           /\ memory.priority_sums[i] =
                  PowAlpha(ClipError(0 + BonusPriorityAgent) + Eps)

(***************************************************************************)
(* C13: in the end-to-end scenario (agent capacity 100, 10 preloaded demo  *)
(* experiences, N = 3), after 3 non-terminal appends on one environment id *)
(* the length-3 experience made of them is in the agent pool; a terminal   *)
(* append as step 4 then emits exactly 2 more experiences, of lengths 2    *)
(* and 1, clears the window, and leaves the agent pool with exactly 3      *)
(* entries.                                                                *)
(***************************************************************************)
C13_EndToEnd ==
    /\ \A e \in EnvIds :
           Len(episode[e].trans) = 3 =>
               \E i \in DOMAIN memory.data :
                   /\ Len(memory.data[i]) = 3
                   /\ [j \in 1..3 |-> memory.data[i][j].id] = episode[e].trans
    /\ (/\ last.op = "append" /\ last.is_state_terminal
        /\ Len(last.ep_trans) = 4) =>
           /\ Lens(last.emitted) = <<2, 1>>
           /\ last_n_transitions[last.env_id] = <<>>
           /\ t = Len(Preloaded) + 4 => PB_Len(memory) = 3

(***************************************************************************)
(* C14: in every reachable state each per-environment window holds at most *)
(* N transitions, and every experience stored in either pool has a length  *)
(* between 1 and N inclusive.  N is the num_steps the buffer was           *)
(* constructed with.                                                       *)
(***************************************************************************)
C14_LengthBounds ==
    /\ \A e \in EnvIds : Len(last_n_transitions[e]) <= N
    /\ \A i \in DOMAIN memory.data : Len(memory.data[i]) \in 1..N
    /\ \A i \in DOMAIN memory_demo.data : Len(memory_demo.data[i]) \in 1..N

\* both pools hold experiences and two windows hold transitions
C14_Witness ==
    /\ memory.data # <<>> /\ memory_demo.data # <<>>
    /\ Cardinality({e \in EnvIds : last_n_transitions[e] # <<>>}) >= 2

(***************************************************************************)
(* C15: for an experience of length 1, the batch batch_experiences         *)
(* assembles has reward_1step equal to reward_nstep and next_state_1step   *)
(* equal to next_state_nstep for that sample.                              *)
(***************************************************************************)
C15_RoundTrip ==
    batch.called =>
        \A i \in DOMAIN batch.experiences :
            Len(batch.experiences[i]) = 1 =>
                /\ batch.exp_batch.reward_1step[i] =
                       batch.exp_batch.reward_nstep[i]
                /\ batch.exp_batch.next_state_1step[i] =
                       batch.exp_batch.next_state_nstep[i]

\* a batch of an experience of length 1 and a longer one, for which the
\* 1-step and n-step entries differ
C15_Witness ==
    /\ batch.called
    /\ Len(batch.experiences) = 2
    /\ Len(batch.experiences[1]) = 1
    /\ Len(batch.experiences[2]) > 1
    /\ batch.exp_batch.reward_1step[2] # batch.exp_batch.reward_nstep[2]
    /\ batch.exp_batch.next_state_1step[2] #
           batch.exp_batch.next_state_nstep[2]

(***************************************************************************)
(* C16: append and stop_current_episode on environment id i leave the      *)
(* window of every other environment id unchanged, and the experiences     *)
(* emitted for an environment are made of that environment's transitions   *)
(* only, consecutive ones of its running episode, however the steps of the *)
(* environments are interleaved.                                           *)
(***************************************************************************)
OwnRun(tagged, e, trans) ==
    \A k \in DOMAIN tagged :
        LET exp == tagged[k].exp
        IN /\ \A j \in DOMAIN exp : exp[j].env_id = e
           /\ \E first \in DOMAIN trans :
                  /\ first + Len(exp) - 1 <= Len(trans)
                  /\ \A j \in DOMAIN exp : exp[j].id = trans[first + j - 1]

C16_EnvIndependence ==
    /\ [](/\ \A e \in EnvIds :
                 /\ OwnRun(episode[e].emitted, e, episode[e].trans)
                 /\ \A j \in DOMAIN last_n_transitions[e] :
                        last_n_transitions[e][j].env_id = e
           /\ OwnRun(last.ep_emitted, last.env_id, last.ep_trans))
    /\ [][last' # last =>
              \A j \in EnvIds \ {last'.env_id} :
                  /\ last_n_transitions'[j] = last_n_transitions[j]
                  /\ episode'[j] = episode[j]]_vars

\* the steps of two environments interleaved: both have a running episode
\* that has emitted, and the last step was taken between them
C16_Witness ==
    /\ \A e \in {0, 1} :
           /\ last_n_transitions[e] # <<>>
           /\ episode[e].emitted # <<>>
    /\ \E e \in {0, 1} :
           /\ Len(episode[e].trans) = 2
           /\ episode[e].trans[2] > episode[1 - e].trans[1]
           /\ episode[e].trans[1] < episode[1 - e].trans[1]

(***************************************************************************)
(* C17: a non-terminal append emits nothing while the window holds fewer   *)
(* than N transitions; once the window holds N transitions every           *)
(* non-terminal append emits exactly one experience, the whole length-N    *)
(* window, into the pool the demo flag selects, and the window is not      *)
(* cleared.  N is the num_steps the buffer was constructed with.           *)
(***************************************************************************)
C17_SlidingWindow ==
    (last.op = "append" /\ ~last.is_state_terminal) =>
        /\ Len(last.window) < N => last.emitted = <<>>
        /\ Len(last.window) = N =>
               last.emitted =
                   <<[pool |-> IF last.demo THEN "demo" ELSE "agent",
                      exp |-> last.window]>>
        /\ last_n_transitions[last.env_id] = last.window

(***************************************************************************)
(* C18: update splits the error vector at k, the number of agent-origin    *)
(* experiences: the first k errors, each plus bonus_priority_agent, become *)
(* the priorities of the k agent experiences just sampled and the          *)
(* remaining ones, each plus bonus_priority_demo, those of the demo        *)
(* experiences just sampled; no other priority changes, and an empty list  *)
(* leaves its pool as it was.  The error vector is the estimator's: the    *)
(* step must agree with one of the vectors it can return.                  *)
(***************************************************************************)
\* The priorities of pool pb once those of the experiences in sampled are
\* written from errors, whose entry for sampled[j] is errors[offset + j]
Written(pb, sampled, errors, offset, bonus) ==
    [i \in DOMAIN pb.data |->
        IF \E j \in DOMAIN sampled : sampled[j] = pb.data[i]
        THEN LET j == CHOOSE j \in DOMAIN sampled : sampled[j] = pb.data[i]
             IN PowAlpha(ClipError(errors[offset + j] + bonus) + Eps)
        ELSE pb.priority_sums[i]]

C18_ErrorSplit ==
    [][(WroteErrors(res') /\ res' # res) =>
          LET sa == res'.sampled_agent
              sd == res'.sampled_demo
          IN /\ \E errors_out \in [1..(Len(sa) + Len(sd)) -> RawErrors] :
                    /\ memory'.priority_sums =
                           Written(memory, sa, errors_out, 0,
                                   BonusPriorityAgent)
                    /\ memory_demo'.priority_sums =
                           Written(memory_demo, sd, errors_out, Len(sa),
                                   BonusPriorityDemo)
             /\ sa = <<>> => memory' = memory
             /\ sd = <<>> => memory_demo' = memory_demo
             /\ memory'.data = memory.data
             /\ memory_demo'.data = memory_demo.data]_vars

\* an update of a batch of one agent and one demo experience: each pool
\* holds a priority made with its own bonus
C18_Witness ==
    /\ res.updated
    /\ Len(res.sampled_agent) = 1 /\ Len(res.sampled_demo) = 1
    /\ \E i \in DOMAIN memory.data :
           /\ memory.data[i] = res.sampled_agent[1]
           /\ memory.priority_sums[i] =
                  PowAlpha(ClipError(500 + BonusPriorityAgent) + Eps)
    /\ \E i \in DOMAIN memory_demo.data :
           /\ memory_demo.data[i] = res.sampled_demo[1]
           /\ memory_demo.priority_sums[i] =
                  PowAlpha(ClipError(500 + BonusPriorityDemo) + Eps)

(***************************************************************************)
(* C19: in the agent's training flow (pretrain, act_and_train,             *)
(* batch_observe_and_train) a pool that was sampled gets its priorities    *)
(* written back before anything else touches it: no pool awaits priorities *)
(* when a handler appends to it, evicts from it or samples it, and a pool  *)
(* awaits priorities only once the flow has ended in an error.             *)
(***************************************************************************)
Awaits(pb) == pb.flag_wait_priority

Touched(pb, pbNext, sampled) ==
    \/ pbNext.data # pb.data
    \/ res' # res /\ res'.called_sample /\ sampled # <<>>

C19_SampleThenWriteBack ==
    /\ [](pc # "failed" => ~Awaits(memory) /\ ~Awaits(memory_demo))
    /\ [][/\ Touched(memory, memory', res'.sampled_agent) =>
                 ~Awaits(memory)
          /\ Touched(memory_demo, memory_demo', res'.sampled_demo) =>
                 ~Awaits(memory_demo)
          /\ pc = "failed" => UNCHANGED <<memory, memory_demo>>]_vars

\* a pretraining update, then appends that evicted from the full agent
\* pool, then an update that sampled the agent pool
C19_Witness ==
    /\ agent.updates # <<>>
    /\ agent.appended > capacity
    /\ PB_Len(memory) = capacity
    /\ res.updated
    /\ res.sampled_agent # <<>>

(***************************************************************************)
(* C20: whenever both gates of update_if_necessary pass, each of its       *)
(* sample(batchsize) calls succeeds, whatever the binomial split: the demo *)
(* pool can always supply batchsize minus the agent count.                 *)
(***************************************************************************)
C20_GatesSuffice ==
    (res.op = "update_if_necessary" /\ res.gate = "pass"
                                    /\ res.called_sample) =>
        /\ res.error # "AssertionError"
        /\ res.nsample_agent <= res.agent_len
        /\ res.nsample_demo <= res.demo_len

(***************************************************************************)
(* C21: a buffer constructed with num_steps = N uses N as its window size: *)
(* its num_steps and the maxlen of its windows are N, so a window can hold *)
(* up to N transitions, and a non-terminal append emits the window only    *)
(* when the window then holds exactly N transitions.                       *)
(***************************************************************************)
C21_WindowSize ==
    /\ num_steps = N
    /\ maxlen = N
    /\ (last.op = "append" /\ ~last.is_state_terminal
                           /\ last.emitted # <<>>) =>
           Len(last.window) = N

(***************************************************************************)
(* C22: after any interleaving of append(demo=True), append(demo=False)    *)
(* and stop_current_episode calls, calls that share an environment id      *)
(* included, every experience in the demo pool is made only of transitions *)
(* appended with demo=True and every experience in the agent pool only of  *)
(* transitions appended with demo=False.                                   *)
(***************************************************************************)
C22_PoolPurity ==
    /\ \A i \in DOMAIN memory_demo.data :
           \A j \in DOMAIN memory_demo.data[i] : memory_demo.data[i][j].demo
    /\ \A i \in DOMAIN memory.data :
           \A j \in DOMAIN memory.data[i] : ~memory.data[i][j].demo

\* one running episode of an environment took a demo=True append and then a
\* demo=False append, both emitted, and was then stopped with the flag its
\* window's transition was not appended with
C22_Witness ==
    /\ last.op = "stop_current_episode"
    /\ last.window # <<>>
    /\ last.window[1].demo # last.demo
    /\ \E i \in DOMAIN memory_demo.data, k \in DOMAIN memory.data :
           LET d == memory_demo.data[i][1]
               a == memory.data[k][1]
           IN /\ d.env_id = last.env_id /\ a.env_id = last.env_id
              /\ ~d.is_state_terminal
              /\ a.id = d.id + 1

(***************************************************************************)
(* C23: for every experience of a batch the 1-step target is built from    *)
(* the first transition only: its reward plus gamma ^ 1 times the value of *)
(* its next state, the bootstrap term being dropped only when that first   *)
(* transition is terminal.  So a longer window whose last transition is    *)
(* terminal keeps the bootstrap term of its 1-step target, and the 1-step  *)
(* target does not carry the n-step discount gamma ^ len.                  *)
(***************************************************************************)
C23_OneStepTarget ==
    batch.targets.computed =>
        \A i \in DOMAIN batch.experiences :
            LET first == batch.experiences[i][1]
            IN batch.targets.t_1step[i] =
                   Pow(GammaDen, MaxNumSteps) * first.reward
                   + Discounted(batch.gamma, 1, 1)
                     * (IF first.is_state_terminal THEN 0 ELSE 1)
                     * batch.targets.next_q[first.next_state]

(***************************************************************************)
(* C24: stop_current_episode on an empty window is a no-op: it emits       *)
(* nothing, changes neither pool and leaves the window empty.  That is the *)
(* case when it is called right after a terminal append on the same        *)
(* environment id, or right after another stop_current_episode on it, so   *)
(* the experiences of a terminated episode are not emitted a second time.  *)
(***************************************************************************)
NoOp ==
    /\ last'.emitted = <<>>
    /\ memory' = memory
    /\ memory_demo' = memory_demo
    /\ last_n_transitions' = last_n_transitions
    /\ last_n_transitions'[last'.env_id] = <<>>

C24_StopOnEmptyWindow ==
    [][last'.op = "stop_current_episode" =>
          /\ last_n_transitions[last'.env_id] = <<>> => NoOp
          /\ (/\ last.env_id = last'.env_id
              /\ \/ last.op = "append" /\ last.is_state_terminal
                 \/ last.op = "stop_current_episode") => NoOp]_vars

\* stop_current_episode was called, with either flag, right after the
\* terminal append that closed an episode of its environment and emitted
\* into the agent pool
C24_Witness ==
    /\ last.op = "stop_current_episode"
    /\ last.window = <<>>
    /\ last.emitted = <<>>
    /\ last.demo
    /\ \E i \in DOMAIN memory.data :
           LET x == memory.data[i][1]
           IN x.is_state_terminal /\ x.env_id = last.env_id /\ x.id = t

====
